---- MODULE Spec2Model ----
\* Model of mcp-client/bedrockClient.py: the MCPClient shell (main, connect_to_server,
\* chat_loop, process_query, cleanup).  Python strings are sequences of one-character
\* strings, lists are sequences, dicts whose keys are tested with `in` are records.
EXTENDS Naturals, Sequences, FiniteSets, TLC

\* ------------------------------------------------------------------ bounds
MaxBlocks == 2        \* longest content list of a first gateway response
MaxFollowBlocks == 2  \* longest content list of a follow-up gateway response
MaxLines == 2         \* the line counter saturates here

\* ------------------------------------------------------------------ strings
RECURSIVE Join_Trailing(_, _)
\* Join with the separator after every part
Join_Trailing(sep, parts) ==
    IF parts = <<>> THEN <<>>
    ELSE parts[1] \o sep \o Join_Trailing(sep, Tail(parts))

RECURSIVE Join(_, _)
\* sep.join(parts)
Join(sep, parts) ==
    IF parts = <<>> THEN <<>>
    ELSE IF Len(parts) = 1 THEN parts[1]
    ELSE parts[1] \o sep \o Join(sep, Tail(parts))

NL == <<"\n">>

IsSpace(c) == c \in {" ", "\t", "\n"}

RECURSIVE LStrip(_)
LStrip(s) == IF s # <<>> /\ IsSpace(s[1]) THEN LStrip(Tail(s)) ELSE s

RECURSIVE RStrip(_)
RStrip(s) ==
    IF s # <<>> /\ IsSpace(s[Len(s)]) THEN RStrip(SubSeq(s, 1, Len(s) - 1)) ELSE s

\* str.strip()
Strip(s) == RStrip(LStrip(s))

\* LowerChar leaving the character as it is
LowerChar_Identity(c) == c

LowerChar(c) ==
    CASE c = "Q" -> "q"
      [] c = "U" -> "u"
      [] c = "I" -> "i"
      [] c = "T" -> "t"
      [] c = "H" -> "h"
      [] OTHER -> c

\* str.lower()
Lower(s) == [i \in 1..Len(s) |-> LowerChar(s[i])]

\* EndsWith comparing the suffix without its first character
EndsWith_Loose(s, suffix) ==
    /\ Len(s) >= Len(suffix) - 1
    /\ SubSeq(s, Len(s) - Len(suffix) + 2, Len(s)) = Tail(suffix)

\* str.endswith(suffix)
EndsWith(s, suffix) ==
    /\ Len(s) >= Len(suffix)
    /\ SubSeq(s, Len(s) - Len(suffix) + 1, Len(s)) = suffix

DigitChar(n) ==
    CASE n = 0 -> "0" [] n = 1 -> "1" [] n = 2 -> "2" [] n = 3 -> "3" [] n = 4 -> "4"
      [] n = 5 -> "5" [] n = 6 -> "6" [] n = 7 -> "7" [] n = 8 -> "8" [] OTHER -> "9"

\* str() of one dict item with a one-character key and a one-digit value: 'k': v
ReprItem(kv) == <<"'", kv[1], "'", ":", " ", DigitChar(kv[2])>>

\* str() of a dict, given as its items in insertion order: {'a': 2, 'b': 2}
ReprDict(d) ==
    <<"{">> \o Join(<<",", " ">>, [i \in 1..Len(d) |-> ReprItem(d[i])]) \o <<"}">>

QUIT == <<"q", "u", "i", "t">>

ERR ==
    <<"E", "r", "r", "o", "r", " ", "c", "a", "l", "l", "i", "n", "g", " ",
      "B", "e", "d", "r", "o", "c", "k", " ", "A", "P", "I">>

\* f"[Calling tool {tool_name} with args {tool_args}]"
Marker(tool_name, tool_args) ==
    <<"[", "C", "a", "l", "l", "i", "n", "g", " ", "t", "o", "o", "l", " ">>
    \o tool_name
    \o <<" ", "w", "i", "t", "h", " ", "a", "r", "g", "s", " ">>
    \o ReprDict(tool_args)
    \o <<"]">>

\* ------------------------------------------------------------------ inputs
\* sys.argv[1]
Paths ==
    { <<"s", ".", "p", "y">>, <<"s", ".", "j", "s">>, <<"s", ".", "s", "h">>, <<"p", "y">> }

\* what input() can hand back
RawLines ==
    { <<"q", "u", "i", "t">>, <<" ", "Q", "u", "I", "T", "\n">>,
      <<" ", "h", "i", "\t">>, <<>> }

\* ContentBlock values of a gateway response
Text(t) == [text |-> t]
ToolUse(n, i, id) == [toolUse |-> [name |-> n, input |-> i, toolUseId |-> id]]

TU1 == ToolUse(<<"a", "d", "d">>, << <<"a", 2>>, <<"b", 2>> >>, "t1")
TU2 == ToolUse(<<"m", "u", "l">>, <<>>, "t2")
\* a toolUse block without "name"
BadTU == [toolUse |-> [input |-> <<>>, toolUseId |-> "t3"]]
\* a block that is neither text nor toolUse
Image == [image |-> "png"]

FirstBlocks == { Text(<<"4">>), Text(<<"o", "k">>), TU1, TU2, BadTU, Image }

SeqsUpTo(S, n) == UNION { [1..k -> S] : k \in 0..n }

NumToolUse(content) == Cardinality({i \in 1..Len(content) : "toolUse" \in DOMAIN content[i]})

FirstResponses == SeqsUpTo(FirstBlocks, MaxBlocks)

\* a follow-up response: k Text blocks, two texts in turn, then at most one toolUse block
FollowTexts(k) == [i \in 1..k |-> IF i % 2 = 1 THEN Text(<<"c">>) ELSE Text(<<"d">>)]
FollowResponses ==
    {FollowTexts(k) : k \in 0..MaxFollowBlocks}
        \cup {Append(FollowTexts(k), TU2) : k \in 0..(MaxFollowBlocks - 1)}

\* what session.call_tool can return for a tool: the add tool returns an object whose
\* content is a list, any other tool an object with no content attribute (a str
\* content, [content |-> [str |-> s]], is left out of the inputs)
ToolResults(tool_name) ==
    IF tool_name = <<"a", "d", "d">>
    THEN { [content |-> [list |-> <<"4">>]] }
    ELSE { [object |-> <<"r">>] }

\* str() of a list of one-character items, str() of an object without content
ReprList(l) == <<"[">> \o Join(<<",", " ">>, [i \in 1..Len(l) |-> <<l[i]>>]) \o <<"]">>
ReprObject(o) == <<"<">> \o o \o <<">">>

\* lines 148-151
ResultContent(result) ==
    IF "content" \in DOMAIN result
    THEN (IF "str" \in DOMAIN result.content
          THEN result.content.str
          ELSE ReprList(result.content.list))
    ELSE ReprObject(result.object)

\* Assistant giving the message the user role
Assistant_AsUser(c) == [role |-> "user", content |-> c]

UserText(q) == [role |-> "user", content |-> <<[text |-> q]>>]
Assistant(c) == [role |-> "assistant", content |-> c]
UserToolResult(id, rc) ==
    [role |-> "user",
     content |-> <<[toolResult |-> [toolUseId |-> id, content |-> <<[text |-> rc]>>]]>>]

\* ------------------------------------------------------------------ state
VARIABLES
    pc,            \* position of the single thread of control
    path,          \* sys.argv[1]
    server_params, \* <<server_params>> of connect_to_server, <<>> while it is unbound
    exit_stack,    \* contexts entered on self.exit_stack, oldest first
    released,      \* contexts exited by aclose, in exit order
    cleanup_calls, \* number of times cleanup() ran
    fatal,         \* exception propagating out of main, or "none"
    nlines,        \* lines read by chat_loop (saturating)
    line,          \* what the last successful input() returned
    query,         \* chat_loop's query, process_query's argument
    messages,      \* process_query's messages
    content_list,  \* process_query's content_list
    idx,           \* position of the outer for loop in content_list
    final_text,    \* process_query's final_text
    tool_results,  \* process_query's tool_results
    ret,           \* <<value>> returned by process_query in this turn of the while loop
    terminal,      \* what was printed since the last prompt, the prompt included
    calls          \* session.call_tool / bedrock.converse calls since the last prompt

vars == <<pc, path, server_params, exit_stack, released, cleanup_calls, fatal, nlines, line, query, messages,
          content_list, idx, final_text, tool_results, ret, terminal, calls>>

mainVars == <<path, server_params, exit_stack, released, cleanup_calls, fatal>>
queryVars == <<query, messages, content_list, idx, final_text, tool_results, ret, calls>>

Init ==
    /\ pc = "connect"
    /\ path \in Paths
    /\ server_params = <<>>
    /\ exit_stack = <<>>
    /\ released = <<>>
    /\ cleanup_calls = 0
    /\ fatal = "none"
    /\ nlines = 0
    /\ line = <<>>
    /\ query = <<>>
    /\ messages = <<>>
    /\ content_list = <<>>
    /\ idx = 1
    /\ final_text = <<>>
    /\ tool_results = <<>>
    /\ ret = <<>>
    /\ terminal = <<>>
    /\ calls = <<>>

\* ------------------------------------------------------------------ main, connect_to_server
\* Fatal without the try/finally of main
Fatal_NoFinally(e) ==
    /\ fatal' = e
    /\ server_params' = <<>>
    /\ pc' = "done"

\* an exception leaves connect_to_server: main's finally clause runs next
Fatal(e) ==
    /\ fatal' = e
    /\ server_params' = <<>>
    /\ pc' = "cleanup"

\* os.environ of the client process
Environs ==
    { [HOME |-> <<"/root">>],
      [HOME |-> <<"/root">>, PYTHONPATH |-> <<"/lib">>],
      [HOME |-> <<"/root">>, PYTHONIOENCODING |-> <<"latin-1">>] }

SysExecutable == "sys.executable"
VenvSitePackages == "site-packages"

\* lines 44-60: the child environment; PYTHONPATH is kept as its list of entries
ChildEnv(environ, venv_site_packages, nt) ==
    [k \in DOMAIN environ \cup {"PYTHONPATH", "PYTHONIOENCODING"}
             \cup (IF nt THEN {"PYTHONLEGACYWINDOWSSTDIO"} ELSE {}) |->
        CASE k = "PYTHONPATH" ->
                 IF "PYTHONPATH" \in DOMAIN environ
                 THEN <<venv_site_packages>> \o environ.PYTHONPATH
                 ELSE <<venv_site_packages>>
          [] k = "PYTHONIOENCODING" -> <<"utf-8">>
          [] k = "PYTHONLEGACYWINDOWSSTDIO" -> <<"0">>
          [] OTHER -> environ[k]]

\* lines 27-67: extension test, interpreter choice, child environment, server_params
SelectCommand ==
    /\ pc = "connect"
    /\ LET is_python == EndsWith(path, <<".", "p", "y">>)
           is_js == EndsWith(path, <<".", "j", "s">>)
           \* python_path is bound only in the is_python branch
           python_path == IF is_python THEN <<SysExecutable>> ELSE <<>>
           command == IF is_python THEN python_path[1] ELSE "node"
       IN  IF ~(is_python \/ is_js) THEN Fatal("ValueError")
           \* line 47 reads python_path
           ELSE IF python_path = <<>> THEN Fatal("UnboundLocalError")
           ELSE \E environ \in Environs, nt \in BOOLEAN :
                   /\ server_params' =
                          << [command |-> command, args |-> <<path>>,
                              env |-> ChildEnv(environ, VenvSitePackages, nt)] >>
                   /\ pc' = "stdio_client"
                   /\ UNCHANGED fatal
    /\ UNCHANGED <<path, exit_stack, released, cleanup_calls, nlines, line, queryVars, terminal>>

\* line 69: start the child process and enter its stdio streams on the exit stack
StdioClient ==
    /\ pc = "stdio_client"
    /\ \/ /\ exit_stack' = Append(exit_stack, "stdio_client")
          /\ pc' = "ClientSession"
          /\ UNCHANGED <<fatal, server_params>>
       \/ Fatal("OSError") /\ UNCHANGED exit_stack
    /\ UNCHANGED <<path, released, cleanup_calls, nlines, line, queryVars, terminal>>

\* line 71
EnterSession ==
    /\ pc = "ClientSession"
    /\ \/ /\ exit_stack' = Append(exit_stack, "ClientSession")
          /\ pc' = "initialize"
          /\ UNCHANGED <<fatal, server_params>>
       \/ Fatal("McpError") /\ UNCHANGED exit_stack
    /\ UNCHANGED <<path, released, cleanup_calls, nlines, line, queryVars, terminal>>

\* Initialize starting the child again when the handshake fails
Initialize_Retry ==
    /\ pc = "initialize"
    /\ \/ pc' = "list_tools"
       \/ pc' = "stdio_client"
    /\ UNCHANGED <<path, server_params, fatal, exit_stack, released, cleanup_calls, nlines,
                   line, queryVars, terminal>>

\* line 73
Initialize ==
    /\ pc = "initialize"
    /\ \/ pc' = "list_tools" /\ UNCHANGED <<fatal, server_params>>
       \/ Fatal("McpError")
    /\ UNCHANGED <<path, exit_stack, released, cleanup_calls, nlines, line, queryVars, terminal>>

\* lines 76-78
ListTools ==
    /\ pc = "list_tools"
    /\ \/ /\ pc' = "chat_loop"
          /\ terminal' = Append(terminal, [print |-> "connected"])
          /\ server_params' = <<>>
          /\ UNCHANGED fatal
       \/ Fatal("McpError") /\ UNCHANGED terminal
    /\ UNCHANGED <<path, exit_stack, released, cleanup_calls, nlines, line, queryVars>>

RECURSIVE Reverse(_)
Reverse(s) == IF s = <<>> THEN <<>> ELSE Append(Reverse(Tail(s)), s[1])

\* lines 206-208, 219-220: the finally clause; aclose exits the contexts last-in first-out
Cleanup ==
    /\ pc = "cleanup"
    /\ released' = released \o Reverse(exit_stack)
    /\ exit_stack' = <<>>
    /\ cleanup_calls' = cleanup_calls + 1
    /\ pc' = "done"
    /\ UNCHANGED <<path, server_params, fatal, nlines, line, queryVars, terminal>>

\* ------------------------------------------------------------------ chat_loop, process_query
\* Caught with the try/except around the while loop instead of inside it
Caught_OutsideLoop(e) ==
    /\ terminal' = Append(terminal, [print |-> "Error", e |-> e])
    /\ pc' = "cleanup"

\* the except clause of chat_loop, lines 203-204
Caught(e) ==
    /\ terminal' = Append(terminal, [print |-> "Error", e |-> e])
    /\ pc' = "input"

\* process_query returns v to line 200 and chat_loop prints it, line 201
Return(v, printed) ==
    /\ ret' = <<v>>
    /\ terminal' = (terminal \o printed) \o <<[print |-> "response", text |-> NL \o v]>>
    /\ pc' = "input"

\* ClientError returning the fragments gathered so far followed by the error string
ClientError_Appended ==
    Return(Join(NL, Append(final_text, ERR)), <<[print |-> "Bedrock API error"]>>)

\* ClientError returning the fragments gathered so far
ClientError_Partial == Return(Join(NL, final_text), <<[print |-> "Bedrock API error"]>>)

\* lines 116-118 and 182-184
ClientError == Return(ERR, <<[print |-> "Bedrock API error"]>>)

\* lines 190-191
ChatLoopStart ==
    /\ pc = "chat_loop"
    /\ terminal' = terminal \o <<[print |-> "started"], [print |-> "usage"]>>
    /\ pc' = "input"
    /\ UNCHANGED <<mainVars, nlines, line, queryVars>>

Bump(n) == IF n < MaxLines THEN n + 1 ELSE n

\* ReadLine leaving the while loop when input() raises
ReadLine_EOFBreaks ==
    /\ pc = "input"
    /\ calls' = <<>>
    /\ ret' = <<>>
    /\ \/ /\ terminal' = <<[print |-> "prompt"], [print |-> "Error", e |-> "EOFError"]>>
          /\ pc' = "cleanup"
          /\ UNCHANGED <<nlines, line, query, messages, content_list, idx, final_text,
                         tool_results>>
       \/ \E l \in RawLines :
            LET q == Strip(l) IN
            /\ terminal' = <<[print |-> "prompt"]>>
            /\ nlines' = Bump(nlines)
            /\ line' = l
            /\ query' = q
            /\ IF Lower(q) = QUIT
               THEN /\ pc' = "cleanup"
                    /\ UNCHANGED <<messages, content_list, idx, final_text, tool_results>>
               ELSE /\ messages' = <<UserText(q)>>
                    /\ content_list' = <<>>
                    /\ idx' = 1
                    /\ final_text' = <<>>
                    /\ tool_results' = <<>>
                    /\ pc' = "pq_list_tools"
    /\ UNCHANGED mainVars

\* ReadLine with the history kept on the client object instead of built per query
ReadLine_KeepHistory ==
    /\ pc = "input"
    /\ calls' = <<>>
    /\ ret' = <<>>
    /\ \/ /\ terminal' = <<[print |-> "prompt"], [print |-> "Error", e |-> "EOFError"]>>
          /\ pc' = "input"
          /\ UNCHANGED <<nlines, line, query, messages, content_list, idx, final_text,
                         tool_results>>
       \/ \E l \in RawLines :
            LET q == Strip(l) IN
            /\ terminal' = <<[print |-> "prompt"]>>
            /\ nlines' = Bump(nlines)
            /\ line' = l
            /\ query' = q
            /\ IF Lower(q) = QUIT
               THEN /\ pc' = "cleanup"
                    /\ UNCHANGED <<messages, content_list, idx, final_text, tool_results>>
               ELSE /\ messages' = Append(messages, UserText(q))
                    /\ content_list' = <<>>
                    /\ idx' = 1
                    /\ final_text' = <<>>
                    /\ tool_results' = <<>>
                    /\ pc' = "pq_list_tools"
    /\ UNCHANGED mainVars

\* lines 195-200 and process_query's lines 82-87: one turn of the while loop up to the
\* first await of process_query
ReadLine ==
    /\ pc = "input"
    /\ calls' = <<>>
    /\ ret' = <<>>
    /\ \/ \* input() raises
          /\ terminal' = <<[print |-> "prompt"], [print |-> "Error", e |-> "EOFError"]>>
          /\ pc' = "input"
          /\ UNCHANGED <<nlines, line, query, messages, content_list, idx, final_text,
                         tool_results>>
       \/ \E l \in RawLines :
            LET q == Strip(l) IN
            /\ terminal' = <<[print |-> "prompt"]>>
            /\ nlines' = Bump(nlines)
            /\ line' = l
            /\ query' = q
            /\ IF Lower(q) = QUIT
               THEN /\ pc' = "cleanup"
                    /\ UNCHANGED <<messages, content_list, idx, final_text, tool_results>>
               ELSE /\ messages' = <<UserText(q)>>
                    /\ content_list' = <<>>
                    /\ idx' = 1
                    /\ final_text' = <<>>
                    /\ tool_results' = <<>>
                    /\ pc' = "pq_list_tools"
    /\ UNCHANGED mainVars

\* lines 89-105
PQListTools ==
    /\ pc = "pq_list_tools"
    /\ \/ pc' = "converse" /\ UNCHANGED terminal
       \/ Caught("McpError")
    /\ UNCHANGED <<mainVars, nlines, line, queryVars>>

\* lines 107-132: the initial gateway call
Converse ==
    /\ pc = "converse"
    /\ calls' = Append(calls, [op |-> "converse"])
    /\ \/ \E resp \in FirstResponses :
            /\ messages' = Append(messages, Assistant(resp))
            /\ tool_results' = <<>>
            /\ final_text' = <<>>
            /\ content_list' = resp
            /\ idx' = 1
            /\ pc' = "loop"
            /\ UNCHANGED <<ret, terminal>>
       \/ ClientError
          /\ UNCHANGED <<messages, tool_results, final_text, content_list, idx>>
       \/ Caught("BotoCoreError")
          /\ UNCHANGED <<messages, tool_results, final_text, content_list, idx, ret>>
    /\ UNCHANGED <<mainVars, nlines, line, query>>

\* lines 134-141 and 186: one step of the outer for loop, or the return after it
Loop ==
    /\ pc = "loop"
    /\ IF idx > Len(content_list)
       THEN /\ Return(Join(NL, final_text), <<>>)
            /\ UNCHANGED <<final_text, idx>>
       ELSE LET content == content_list[idx] IN
            IF "text" \in DOMAIN content
            THEN /\ final_text' = Append(final_text, content.text)
                 /\ idx' = idx + 1
                 /\ UNCHANGED <<pc, ret, terminal>>
            ELSE IF "toolUse" \in DOMAIN content
            THEN IF {"name", "input"} \subseteq DOMAIN content.toolUse
                 THEN /\ pc' = "call_tool"
                      /\ UNCHANGED <<final_text, idx, ret, terminal>>
                 ELSE /\ Caught("KeyError")
                      /\ UNCHANGED <<final_text, idx, ret>>
            ELSE /\ idx' = idx + 1
                 /\ UNCHANGED <<pc, final_text, ret, terminal>>
    /\ UNCHANGED <<mainVars, nlines, line, query, messages, content_list, tool_results, calls>>

\* CallTool without the gateway call that follows the tool result
CallTool_NoFollowUp ==
    /\ pc = "call_tool"
    /\ LET tool_use == content_list[idx].toolUse
           tool_name == tool_use.name
           tool_args == tool_use.input
       IN  /\ calls' = Append(calls, [op |-> "call_tool", name |-> tool_name,
                                      args |-> tool_args])
           /\ \/ \E result \in ToolResults(tool_name) :
                   /\ tool_results' =
                          Append(tool_results, [call |-> tool_name, result |-> result])
                   /\ final_text' = Append(final_text, Marker(tool_name, tool_args))
                   /\ messages' =
                          Append(messages, UserToolResult(tool_use.toolUseId,
                                                          ResultContent(result)))
                   /\ idx' = idx + 1
                   /\ pc' = "loop"
                   /\ UNCHANGED terminal
              \/ /\ Caught("McpError")
                 /\ UNCHANGED <<tool_results, final_text, messages, idx>>
    /\ UNCHANGED <<mainVars, nlines, line, query, content_list, ret>>

\* lines 143-161: the tool call and the ToolResult message
CallTool ==
    /\ pc = "call_tool"
    /\ LET tool_use == content_list[idx].toolUse
           tool_name == tool_use.name
           tool_args == tool_use.input
       IN  /\ calls' = Append(calls, [op |-> "call_tool", name |-> tool_name,
                                      args |-> tool_args])
           /\ \/ \E result \in ToolResults(tool_name) :
                   /\ tool_results' =
                          Append(tool_results, [call |-> tool_name, result |-> result])
                   /\ final_text' = Append(final_text, Marker(tool_name, tool_args))
                   /\ IF "toolUseId" \in DOMAIN tool_use
                      THEN /\ messages' =
                                  Append(messages, UserToolResult(tool_use.toolUseId,
                                                                  ResultContent(result)))
                           /\ pc' = "converse2"
                           /\ UNCHANGED terminal
                      ELSE /\ Caught("KeyError")
                           /\ UNCHANGED messages
              \/ /\ Caught("McpError")
                 /\ UNCHANGED <<tool_results, final_text, messages>>
    /\ UNCHANGED <<mainVars, nlines, line, query, content_list, idx, ret>>

\* TextsOf keeping only the first text of the response
TextsOf_First(content) ==
    IF content = <<>> THEN <<>>
    ELSE IF "text" \in DOMAIN content[1]
         THEN <<content[1].text>>
         ELSE <<>>

RECURSIVE TextsOf(_)
\* the text of each block of content that has one, in block order (lines 179-181)
TextsOf(content) ==
    IF content = <<>> THEN <<>>
    ELSE IF "text" \in DOMAIN content[1]
         THEN <<content[1].text>> \o TextsOf(Tail(content))
         ELSE TextsOf(Tail(content))

\* Converse2 putting the texts of the follow-up response before the fragments gathered
Converse2_TextsFirst ==
    /\ pc = "converse2"
    /\ calls' = Append(calls, [op |-> "converse"])
    /\ \/ \E resp \in FollowResponses :
            /\ messages' = Append(messages, Assistant(resp))
            /\ final_text' = TextsOf(resp) \o final_text
            /\ idx' = idx + 1
            /\ pc' = "loop"
            /\ UNCHANGED <<ret, terminal>>
       \/ ClientError
          /\ UNCHANGED <<messages, final_text, idx>>
       \/ Caught("BotoCoreError")
          /\ UNCHANGED <<messages, final_text, idx, ret>>
    /\ UNCHANGED <<mainVars, nlines, line, query, content_list, tool_results>>

\* Converse2 storing the response over the last message of the history
Converse2_Overwrite ==
    /\ pc = "converse2"
    /\ calls' = Append(calls, [op |-> "converse"])
    /\ \/ \E resp \in FollowResponses :
            /\ messages' = [messages EXCEPT ![Len(messages)] = Assistant(resp)]
            /\ final_text' = final_text \o TextsOf(resp)
            /\ idx' = idx + 1
            /\ pc' = "loop"
            /\ UNCHANGED <<ret, terminal>>
       \/ ClientError
          /\ UNCHANGED <<messages, final_text, idx>>
       \/ Caught("BotoCoreError")
          /\ UNCHANGED <<messages, final_text, idx, ret>>
    /\ UNCHANGED <<mainVars, nlines, line, query, content_list, tool_results>>

\* Converse2 handing the blocks of the follow-up response to the outer loop
Converse2_Recurse ==
    /\ pc = "converse2"
    /\ calls' = Append(calls, [op |-> "converse"])
    /\ \/ \E resp \in FollowResponses :
            /\ messages' = Append(messages, Assistant(resp))
            /\ content_list' = SubSeq(content_list, 1, idx) \o resp
                                   \o SubSeq(content_list, idx + 1, Len(content_list))
            /\ idx' = idx + 1
            /\ pc' = "loop"
            /\ UNCHANGED <<final_text, ret, terminal>>
       \/ ClientError
          /\ UNCHANGED <<messages, final_text, idx, content_list>>
       \/ Caught("BotoCoreError")
          /\ UNCHANGED <<messages, final_text, idx, ret, content_list>>
    /\ UNCHANGED <<mainVars, nlines, line, query, tool_results>>

\* lines 163-184: the gateway call that follows a tool call
Converse2 ==
    /\ pc = "converse2"
    /\ calls' = Append(calls, [op |-> "converse"])
    /\ \/ \E resp \in FollowResponses :
            /\ messages' = Append(messages, Assistant(resp))
            /\ final_text' = final_text \o TextsOf(resp)
            /\ idx' = idx + 1
            /\ pc' = "loop"
            /\ UNCHANGED <<ret, terminal>>
       \/ ClientError
          /\ UNCHANGED <<messages, final_text, idx>>
       \/ Caught("BotoCoreError")
          /\ UNCHANGED <<messages, final_text, idx, ret>>
    /\ UNCHANGED <<mainVars, nlines, line, query, content_list, tool_results>>

Next ==
    \/ SelectCommand
    \/ StdioClient
    \/ EnterSession
    \/ Initialize
    \/ ListTools
    \/ ChatLoopStart
    \/ ReadLine
    \/ PQListTools
    \/ Converse
    \/ Loop
    \/ CallTool
    \/ Converse2
    \/ Cleanup

Spec == Init /\ [][Next]_vars

TypeOK ==
    /\ pc \in {"connect", "stdio_client", "ClientSession", "initialize", "list_tools",
               "chat_loop", "input", "pq_list_tools", "converse", "loop", "call_tool",
               "converse2", "cleanup", "done"}
    /\ cleanup_calls \in 0..1
    /\ nlines \in 0..MaxLines
    /\ Len(ret) <= 1

\* ------------------------------------------------------------------ properties
AtGatewayCall == pc \in {"converse", "converse2"}

HasPrint(kind) == \E i \in 1..Len(terminal) : terminal[i].print = kind

\* process_query returned normally from line 186 in this turn
Completed == pc = "input" /\ ret # <<>> /\ ~HasPrint("Bedrock API error")

ConverseCall == [op |-> "converse"]
NumCalls(op) == Cardinality({i \in 1..Len(calls) : calls[i].op = op})

\* number of toolResult blocks for id in the messages after message m
ResultsAfter(m, id) ==
    Cardinality({ <<k, j>> \in ((m + 1)..Len(messages)) \X (1..(MaxBlocks + MaxFollowBlocks)) :
                    /\ j <= Len(messages[k].content)
                    /\ "toolResult" \in DOMAIN messages[k].content[j]
                    /\ messages[k].content[j].toolResult.toolUseId = id })

\* C1: at every gateway call, each ToolUse block in the message history is followed in
\* the history by exactly one ToolResult block carrying the same toolUseId.
C1_ToolUseAnswered ==
    AtGatewayCall =>
        \A m \in 1..Len(messages) : \A b \in 1..Len(messages[m].content) :
            "toolUse" \in DOMAIN messages[m].content[b] =>
                ResultsAfter(m, messages[m].content[b].toolUse.toolUseId) = 1

RECURSIVE ExpectedCalls(_)
\* one call_tool then one converse per toolUse block of content, in block order
ExpectedCalls(content) ==
    IF content = <<>> THEN <<>>
    ELSE IF "toolUse" \in DOMAIN content[1]
         THEN << [op |-> "call_tool", name |-> content[1].toolUse.name,
                  args |-> content[1].toolUse.input], ConverseCall >>
              \o ExpectedCalls(Tail(content))
         ELSE ExpectedCalls(Tail(content))

\* the content list of the first gateway response, as recorded in the history
FirstResponse == messages[2].content

\* C2: a query without gateway or tool error whose first response holds n ToolUse blocks
\* makes one gateway call, then for each ToolUse block in block order one call_tool with
\* the block's name and input immediately followed by one gateway call: n tool calls and
\* n + 1 gateway calls.
C2_OneRoundTripPerToolUse ==
    Completed =>
        /\ calls = <<ConverseCall>> \o ExpectedCalls(FirstResponse)
        /\ NumCalls("call_tool") = NumToolUse(FirstResponse)
        /\ NumCalls("converse") = NumToolUse(FirstResponse) + 1

C2_Witness ==
    /\ Completed
    /\ NumToolUse(FirstResponse) = 2
    /\ FirstResponse[1] # FirstResponse[2]
    /\ Len(calls) = 5

\* the call_tool calls made so far, as <<name, args>>
ToolCalls == SelectSeq(calls, LAMBDA c : c.op = "call_tool")

\* C3: a ToolUse block of a follow-up response is never executed: every call_tool made
\* is for a ToolUse block of the first response, in block order, and a query whose
\* first response has exactly one ToolUse block makes at most two gateway calls.
C3_FollowUpToolUseNotExecuted ==
    /\ \A k \in 1..Len(ToolCalls) :
          LET first == SelectSeq(FirstResponse, LAMBDA b : "toolUse" \in DOMAIN b)
          IN  /\ k <= Len(first)
              /\ {"name", "input"} \subseteq DOMAIN first[k].toolUse
              /\ ToolCalls[k].name = first[k].toolUse.name
              /\ ToolCalls[k].args = first[k].toolUse.input
    /\ (Len(messages) >= 2 /\ NumCalls("converse") > 0 /\ NumToolUse(FirstResponse) = 1)
          => NumCalls("converse") <= 2

C3_Witness ==
    /\ Completed
    /\ NumToolUse(FirstResponse) = 1
    /\ Len(messages) = 4
    /\ NumToolUse(messages[4].content) >= 1
    /\ NumCalls("converse") = 2
    /\ NumCalls("call_tool") = 1

NumText(content) == Cardinality({i \in 1..Len(content) : "text" \in DOMAIN content[i]})

\* a follow-up gateway call returns a response in this step
FollowUpReturns == pc = "converse2" /\ pc' = "loop"

\* C4 as stated: for a first response with exactly one ToolUse block the follow-up
\* response adds at most one fragment to the output buffer, however many Text blocks
\* it holds.
C4_AtMostOneFragment ==
    [][(FollowUpReturns /\ NumToolUse(FirstResponse) = 1)
          => Len(final_text') <= Len(final_text) + 1]_vars

\* C4 amended: the follow-up response adds exactly one fragment per Text block it
\* holds, in block order after the fragments already in the buffer; so at most one
\* fragment when it holds at most one Text block.
C4_OneFragmentPerTextBlock ==
    [][FollowUpReturns =>
          LET resp == messages'[Len(messages')].content
              new == SubSeq(final_text', Len(final_text) + 1, Len(final_text'))
          IN  /\ Len(final_text') = Len(final_text) + NumText(resp)
              /\ SubSeq(final_text', 1, Len(final_text)) = final_text
              /\ new = [k \in 1..Len(new) |->
                          SelectSeq(resp, LAMBDA b : "text" \in DOMAIN b)[k].text]
              /\ NumText(resp) <= 1 => Len(final_text') <= Len(final_text) + 1]_vars

C4_Witness ==
    /\ Completed
    /\ NumToolUse(FirstResponse) = 1
    /\ Len(messages) = 4
    /\ NumText(messages[4].content) = 2
    /\ Len(final_text) = NumText(FirstResponse) + 3

RECURSIVE JoinLinesLeft(_)
\* the parts with a newline between consecutive parts, built from the left
JoinLinesLeft(parts) ==
    IF parts = <<>> THEN <<>>
    ELSE IF Len(parts) = 1 THEN parts[1]
    ELSE JoinLinesLeft(SubSeq(parts, 1, Len(parts) - 1)) \o <<"\n">> \o parts[Len(parts)]

OnlyText(content) == \A i \in 1..Len(content) : DOMAIN content[i] = {"text"}

\* C5: when the first response holds only Text blocks (zero included) process_query
\* returns their texts joined by newline in arrival order, after exactly one gateway
\* call and no call_tool.
C5_TextOnlyResponse ==
    (pc = "input" /\ ret # <<>> /\ Len(messages) >= 2 /\ OnlyText(FirstResponse)) =>
        /\ ret[1] = JoinLinesLeft([i \in 1..Len(FirstResponse) |-> FirstResponse[i].text])
        /\ calls = <<ConverseCall>>
        /\ Len(messages) = 2

C5_Witness ==
    /\ pc = "input" /\ ret # <<>> /\ Len(messages) >= 2 /\ OnlyText(FirstResponse)
    /\ Len(FirstResponse) = 2
    /\ FirstResponse[1] # FirstResponse[2]
    /\ ret[1] = <<"o", "k", "\n", "4">>

\* C6: the history passed to the first gateway call of every query is the single user
\* message carrying that query's text, and the history passed to a follow-up call
\* holds, after that message, only the first response and one ToolResult message and
\* one response per tool call of this query.
C6_FreshHistoryPerQuery ==
    /\ pc \in {"pq_list_tools", "converse"} =>
          /\ messages = <<UserText(query)>>
          /\ query = Strip(line)
    /\ pc \in {"loop", "call_tool", "converse2"} =>
          /\ messages[1] = UserText(query)
          /\ \A m \in 2..Len(messages) : messages[m] # UserText(query)
          /\ Len(messages) = 2 * NumCalls("converse") + (IF pc = "converse2" THEN 1 ELSE 0)

C6_Witness ==
    /\ pc = "converse"
    /\ nlines = 2
    /\ Len(tool_results) = 0
    /\ messages = <<UserText(<<"h", "i">>)>>

Prompt == [print |-> "prompt"]
LastPrint == terminal[Len(terminal)]

\* C7: when a gateway call of a query fails with a gateway error, process_query returns
\* the fixed string "Error calling Bedrock API" without raising, the failing call is the
\* last call of the query, and the shell is at its next prompt.
C7_GatewayErrorReturnsFixedString ==
    HasPrint("Bedrock API error") =>
        /\ pc = "input"
        /\ fatal = "none"
        /\ ret = <<ERR>>
        /\ Len(ERR) = 25
        /\ terminal = <<Prompt, [print |-> "Bedrock API error"],
                        [print |-> "response", text |-> <<"\n">> \o ERR]>>
        /\ calls # <<>>
        /\ calls[Len(calls)] = ConverseCall
        /\ NumCalls("converse") = NumCalls("call_tool") + 1

C7_Witness ==
    /\ HasPrint("Bedrock API error")
    /\ Len(messages) >= 2
    /\ NumToolUse(FirstResponse) = 2
    /\ NumCalls("call_tool") = 1
    /\ NumCalls("converse") = 2
    /\ ret = <<ERR>>

ShellPcs == {"input", "pq_list_tools", "converse", "loop", "call_tool", "converse2"}

\* C8: an error raised while the shell processes one line (reading it, list_tools or
\* call_tool failing, a non-gateway error of the gateway call, a malformed block) is
\* caught in chat_loop and reported, and the shell is at its next prompt: every turn of
\* the loop ends with a printed response or a printed error, and the loop is left only
\* from the prompt, without an exception.
ErrorReported ==
    HasPrint("Error") =>
        /\ pc = "input"
        /\ fatal = "none"
        /\ LastPrint.print = "Error"
        /\ LastPrint.e \in {"EOFError", "McpError", "BotoCoreError", "KeyError"}

ShellStep ==
    pc \in ShellPcs =>
        /\ (pc # "input" /\ pc' = "input") =>
               terminal'[Len(terminal')].print \in {"Error", "response"}
        /\ pc' \notin ShellPcs => (pc = "input" /\ terminal' = <<Prompt>>)
        /\ fatal' = "none"
        /\ cleanup_calls' = 0

C8_ErrorsCaughtAndReported == []ErrorReported /\ [][ShellStep]_vars

C8_Witness ==
    /\ pc = "input"
    /\ LastPrint = [print |-> "Error", e |-> "KeyError"]
    /\ NumCalls("call_tool") = 1
    /\ NumCalls("converse") = 2

QuitVariants ==
    { <<a, b, c, d>> : a \in {"q", "Q"}, b \in {"u", "U"}, c \in {"i", "I"}, d \in {"t", "T"} }

IsQuitLine(l) == Strip(l) \in QuitVariants

\* C9: when the shell reads a line that, trimmed, is quit in any letter case, the loop
\* ends: process_query is not called, nothing is printed after the prompt, no further
\* prompt is issued, and cleanup is the next and only step.
QuitStep ==
    (pc = "input" /\ terminal' = <<Prompt>> /\ IsQuitLine(line')) =>
        /\ pc' = "cleanup"
        /\ calls' = <<>>
        /\ ret' = <<>>
        /\ messages' = messages

AfterQuit ==
    (pc \in {"cleanup", "done"} /\ fatal = "none") =>
        /\ IsQuitLine(line)
        /\ terminal = <<Prompt>>
        /\ calls = <<>>
        /\ ret = <<>>

TeardownStep ==
    (pc = "cleanup" /\ fatal = "none") =>
        (pc' = "done" /\ cleanup_calls' = cleanup_calls + 1 /\ terminal' = terminal)

C9_QuitTerminates == [][QuitStep]_vars /\ []AfterQuit /\ [][TeardownStep]_vars

C9_Witness ==
    /\ pc = "done"
    /\ fatal = "none"
    /\ line = <<" ", "Q", "u", "I", "T", "\n">>
    /\ nlines = 2
    /\ cleanup_calls = 1

\* C10: on every exit path of main after the client is constructed (quit, unsupported
\* extension, failure starting the child, failure in initialize or list_tools) cleanup
\* runs exactly once, as the last step, and exits every context entered on the exit
\* stack, last entered first.
ReleasedOnlyAtExit ==
    /\ pc # "done" => (cleanup_calls = 0 /\ released = <<>>)
    /\ pc = "done" => (cleanup_calls = 1 /\ exit_stack = <<>>)
    /\ fatal # "none" => pc \in {"cleanup", "done"}
    /\ pc \in ShellPcs => exit_stack = <<"stdio_client", "ClientSession">>

ExitStep ==
    /\ pc' = "done" =>
          /\ pc = "cleanup"
          /\ Len(released') = Len(exit_stack)
          /\ \A i \in 1..Len(exit_stack) : released'[i] = exit_stack[Len(exit_stack) + 1 - i]
    /\ (pc # "cleanup" /\ (fatal' # "none" \/ pc' \notin ShellPcs \cup
           {"connect", "stdio_client", "ClientSession", "initialize", "list_tools",
            "chat_loop"}))
          => pc' = "cleanup"

C10_CleanupExactlyOnce == []ReleasedOnlyAtExit /\ [][ExitStep]_vars

C10_Witness ==
    /\ pc = "done"
    /\ fatal = "McpError"
    /\ released = <<"ClientSession", "stdio_client">>
    /\ cleanup_calls = 1

\* ------------------------------------------------------------------ connection properties
Suffix3(p) == IF Len(p) >= 3 THEN <<p[Len(p) - 2], p[Len(p) - 1], p[Len(p)]>> ELSE <<>>
IsPyPath(p) == Suffix3(p) = <<".", "p", "y">>
IsJsPath(p) == Suffix3(p) = <<".", "j", "s">>

\* C11: for a script path ending in .py or .js, connect_to_server selects the
\* interpreter (the current Python interpreter for .py, node for .js), builds the child
\* environment and reaches the start of the child process with that interpreter and
\* the script path as its only argument.
C11_InterpreterSelected ==
    ((IsPyPath(path) \/ IsJsPath(path)) /\ pc # "connect") =>
        /\ fatal \notin {"ValueError", "UnboundLocalError"}
        /\ pc = "stdio_client" =>
              /\ Len(server_params) = 1
              /\ server_params[1].command = (IF IsPyPath(path) THEN "sys.executable" ELSE "node")
              /\ server_params[1].args = <<path>>
              /\ server_params[1].env.PYTHONIOENCODING = <<"utf-8">>
              /\ server_params[1].env.PYTHONPATH[1] = "site-packages"

\* C12: for a script path with an unsupported extension connect_to_server raises
\* ValueError before any child process is started: nothing is entered on the exit
\* stack, no handshake or tool listing happens and the shell loop is never entered.
C12_UnsupportedExtensionFails ==
    (~IsPyPath(path) /\ ~IsJsPath(path)) =>
        /\ pc \in {"connect", "cleanup", "done"}
        /\ pc # "connect" => fatal = "ValueError"
        /\ server_params = <<>>
        /\ exit_stack = <<>>
        /\ released = <<>>
        /\ terminal = <<>>
        /\ calls = <<>>
        /\ nlines = 0

C12_Witness ==
    /\ path = <<"p", "y">>
    /\ pc = "done"
    /\ fatal = "ValueError"
    /\ cleanup_calls = 1

ConnectingPcs == {"connect", "stdio_client", "ClientSession", "initialize", "list_tools"}

\* the step that may enter each position of the connection
ConnectOrder ==
    /\ pc' # "connect"
    /\ pc' = "stdio_client" => pc = "connect"
    /\ pc' = "ClientSession" => (pc = "stdio_client" /\ exit_stack' = <<"stdio_client">>)
    /\ pc' = "initialize" =>
          (pc = "ClientSession" /\ exit_stack' = <<"stdio_client", "ClientSession">>)
    /\ pc' = "list_tools" => pc = "initialize"
    /\ pc' = "chat_loop" => pc = "list_tools"
    /\ (pc' = "input" /\ pc \notin ShellPcs) => pc = "chat_loop"
    /\ (pc \in ConnectingPcs /\ pc' \notin ConnectingPcs \cup {"chat_loop"}) =>
          (pc' = "cleanup" /\ fatal' # "none")

ReadyBeforeShell ==
    /\ pc \in ShellPcs \cup {"chat_loop"} =>
          (fatal = "none" /\ exit_stack = <<"stdio_client", "ClientSession">>)
    /\ (pc \in ConnectingPcs \/ fatal # "none") =>
          /\ nlines = 0
          /\ terminal = <<>>
          /\ calls = <<>>
          /\ messages = <<>>
    /\ fatal # "none" => pc \in {"cleanup", "done"}

\* C13: the connection is attempted once, in the order child process, session,
\* initialize, list_tools; the shell loop starts only after all of them succeeded; a
\* failure at any of these steps leaves connect_to_server as an exception and ends the
\* program without a prompt, a query or a second attempt.
C13_ConnectOnceThenReady == []ReadyBeforeShell /\ [][ConnectOrder]_vars

C13_Witness ==
    /\ pc = "input"
    /\ nlines = 0
    /\ exit_stack = <<"stdio_client", "ClientSession">>
    /\ terminal = <<[print |-> "connected"], [print |-> "started"], [print |-> "usage"]>>

\* ------------------------------------------------------------------ shell and history properties
\* input() returned a line in this step
LineRead == pc = "input" /\ terminal' = <<Prompt>>

Forwarded == pc' = "pq_list_tools"

ForwardedIffQuery ==
    LineRead => (Forwarded <=> (Strip(line') # <<>> /\ ~IsQuitLine(line')))

\* C14: the shell forwards a line to process_query exactly when the trimmed line is
\* non-empty and is not quit in any letter case.
C14_ForwardsNonEmptyNonQuit == [][ForwardedIffQuery]_vars

IsPrefix(a, b) == Len(a) <= Len(b) /\ SubSeq(b, 1, Len(a)) = a

InQuery == pc \in {"pq_list_tools", "converse", "loop", "call_tool", "converse2"}

HistoryStep ==
    InQuery =>
        /\ IsPrefix(messages, messages')
        /\ pc' = "converse2" => Len(messages') > Len(messages)
        /\ (pc \in {"converse", "converse2"} /\ pc' = "loop") =>
              Len(messages') = Len(messages) + 1

\* C15: within one query the history only grows at its end: no step removes, reorders
\* or changes a message, and between one gateway call and the next the history gets
\* strictly longer.
C15_HistoryAppendOnly == [][HistoryStep]_vars

C15_Witness ==
    /\ pc = "converse2"
    /\ Len(messages) = 5
    /\ NumCalls("converse") = 2

\* the texts of the Text blocks of content, in block order
TextBlocks(content) ==
    LET t == SelectSeq(content, LAMBDA b : "text" \in DOMAIN b)
    IN  [i \in 1..Len(t) |-> t[i].text]

\* "[Calling tool <name> with args <args>]" for the two tools of the inputs
MarkerOf(tu) ==
    IF tu.name = <<"a", "d", "d">>
    THEN <<"[", "C", "a", "l", "l", "i", "n", "g", " ", "t", "o", "o", "l", " ",
           "a", "d", "d", " ", "w", "i", "t", "h", " ", "a", "r", "g", "s", " ",
           "{", "'", "a", "'", ":", " ", "2", ",", " ", "'", "b", "'", ":", " ", "2", "}",
           "]">>
    ELSE <<"[", "C", "a", "l", "l", "i", "n", "g", " ", "t", "o", "o", "l", " ",
           "m", "u", "l", " ", "w", "i", "t", "h", " ", "a", "r", "g", "s", " ",
           "{", "}", "]">>

RECURSIVE Fragments(_, _)
\* the fragments a query without error produces for the blocks of content, the k-th
\* ToolUse block of the first response having its follow-up response in message 2 + 2k
Fragments(content, k) ==
    IF content = <<>> THEN <<>>
    ELSE IF "text" \in DOMAIN content[1]
         THEN <<content[1].text>> \o Fragments(Tail(content), k)
    ELSE IF "toolUse" \in DOMAIN content[1]
         THEN <<MarkerOf(content[1].toolUse)>> \o TextBlocks(messages[2 + 2 * k].content)
                  \o Fragments(Tail(content), k + 1)
    ELSE Fragments(Tail(content), k)

\* C16: when no gateway call fails the returned string is the newline join of the
\* fragments in the order produced: the texts of the first response in block order
\* and, at the position of each ToolUse block, its tool-call marker followed by the
\* texts of that block's follow-up response.
C16_ReturnIsOrderedJoin ==
    Completed => ret[1] = JoinLinesLeft(Fragments(FirstResponse, 1))

C16_Witness ==
    /\ Completed
    /\ FirstResponse = <<Text(<<"4">>), TU2>>
    /\ Len(messages) = 4
    /\ NumText(messages[4].content) = 2
    /\ ret[1] = <<"4", "\n",
                  "[", "C", "a", "l", "l", "i", "n", "g", " ", "t", "o", "o", "l", " ",
                  "m", "u", "l", " ", "w", "i", "t", "h", " ", "a", "r", "g", "s", " ",
                  "{", "}", "]", "\n", "c", "\n", "d">>

\* C17: at every gateway call the history starts with a user message, alternates
\* between the user and the assistant role, and ends with a user message: the query
\* text at the first call, a ToolResult message at a follow-up call.
C17_RolesAlternate ==
    AtGatewayCall =>
        /\ Len(messages) % 2 = 1
        /\ \A m \in 1..Len(messages) :
              messages[m].role = (IF m % 2 = 1 THEN "user" ELSE "assistant")
        /\ LET last == messages[Len(messages)].content
           IN  /\ Len(last) = 1
               /\ IF pc = "converse"
                  THEN last[1] = [text |-> query]
                  ELSE "toolResult" \in DOMAIN last[1]

C17_Witness ==
    /\ pc = "converse2"
    /\ Len(messages) = 5
    /\ NumToolUse(FirstResponse) = 2
    /\ NumText(FirstResponse) = 0

\* sub occurs in s as a run of consecutive characters
Contains(s, sub) ==
    \E i \in 1..(Len(s) + 1) :
        i + Len(sub) - 1 <= Len(s) /\ SubSeq(s, i, i + Len(sub) - 1) = sub

FollowUpFailed == pc = "input" /\ HasPrint("Bedrock API error") /\ NumCalls("call_tool") > 0

\* C18: when a follow-up gateway call fails with a gateway error the value returned
\* is exactly the fixed error string: none of the fragments gathered before the
\* failing call is in it, although the tool calls made before it have taken place.
C18_FollowUpErrorDropsFragments ==
    FollowUpFailed =>
        /\ ret = << <<"E", "r", "r", "o", "r", " ", "c", "a", "l", "l", "i", "n", "g", " ",
                     "B", "e", "d", "r", "o", "c", "k", " ", "A", "P", "I">> >>
        /\ final_text # <<>>
        /\ ~Contains(ret[1], JoinLinesLeft(final_text))
        /\ Len(tool_results) = NumCalls("call_tool")
        /\ \A k \in 1..Len(tool_results) : tool_results[k].call = ToolCalls[k].name

C18_Witness ==
    /\ FollowUpFailed
    /\ Len(final_text) = 4
    /\ Len(tool_results) = 2
    /\ NumText(FirstResponse) = 0

\* the while loop is left in this step
LeavesShell == pc \in ShellPcs /\ pc' \notin ShellPcs

OnlyQuitLeaves ==
    /\ LeavesShell =>
          /\ LineRead
          /\ IsQuitLine(line')
          /\ pc' = "cleanup"
          /\ fatal' = "none"
    /\ (pc = "input" /\ ~LineRead) =>
          /\ terminal' = <<Prompt, [print |-> "Error", e |-> "EOFError"]>>
          /\ pc' = "input"
          /\ cleanup_calls' = 0
    /\ (InQuery /\ Len(terminal') > Len(terminal) /\ terminal'[Len(terminal')].print = "Error")
          => pc' = "input"

\* C19: once the shell loop runs, reading a quit line is its only exit: an error while
\* reading input, end of input included, or while processing a query is reported and
\* the shell is at its prompt again, so without a quit line cleanup is never reached.
C19_QuitIsOnlyExit ==
    /\ [][OnlyQuitLeaves]_vars
    /\ []((pc \in {"cleanup", "done"} /\ nlines > 0) => IsQuitLine(line))
    /\ []((pc \in {"cleanup", "done"} /\ nlines = 0) => fatal # "none")

C19_Witness ==
    /\ pc = "input"
    /\ terminal = <<Prompt, [print |-> "Error", e |-> "EOFError"]>>
    /\ nlines = 2
    /\ cleanup_calls = 0

====
